---------------------------- MODULE Spec2Model ----------------------------
(* A model of src/src/utilities/index.ts of remix-hook-form:               *)
(* generateFormData, isGet, getValidatedFormData, validateFormData,        *)
(* createFormData, parseFormData, mergeErrors and parseRightValue.         *)
(*                                                                         *)
(* JavaScript values are tagged records.  A string is a sequence of        *)
(* one-character strings, so that split, the regular expressions, the      *)
(* spread of a string and JSON text are computed character by character.   *)
(* An object is a sequence of <<key, value>> pairs in enumeration order;   *)
(* an array is a sequence of elements (with holes) plus named properties.  *)
(* The module is an ES module, hence strict code: a property write on a    *)
(* primitive throws.                                                       *)
EXTENDS Integers, Sequences, FiniteSets, TLC

VARIABLES
  consumed,        \* generateFormData: the entries formData.entries() has yielded so far
  outputObject,    \* generateFormData: the object under construction
  gstatus,         \* generateFormData: "running" | "returned" | "threw"
  frontendErrors,  \* mergeErrors: the tree the call mutates and returns
  backendErrors,   \* mergeErrors: the second argument (Undefined when absent)
  stack,           \* mergeErrors: the active calls, the innermost last
  onMergeCalls,    \* mergeErrors: how often the caller's onMerge has run
  mstatus,         \* mergeErrors: "called" | "running" | "returned" | "threw"
  pdata,           \* the data createFormData was given (Undefined for a hand-built form)
  pbody,           \* the form body of the request parseFormData reads
  pkey,            \* the key createFormData and parseFormData are called with
  pkind,           \* the request: "standard" (a Request) | "held" (formData() hands out
                   \* a FormData the caller keeps)
  pused,           \* the request's bodyUsed flag
  presult,         \* parseFormData: the branch taken and the value returned or the throw
  pstatus,         \* parseFormData: "start" | "built" | "reading" | "rejected" | "done"
  request,         \* getValidatedFormData: the request (method, query entries, form body, kind)
  source,          \* getValidatedFormData: what the data is read from
  pending,         \* getValidatedFormData: what the promise it awaits has settled with
  data,            \* getValidatedFormData: the extracted data
  resolved,        \* validateFormData: what the awaited resolver returned
  result,          \* getValidatedFormData: the value returned
  rstatus          \* getValidatedFormData: "start" | "reading" | "parsed" | "resolving" |
                   \* "resolved" | "validated" | "returned" | "threw"

flattenVars == <<consumed, outputObject, gstatus>>
mergeVars == <<frontendErrors, backendErrors, stack, onMergeCalls, mstatus>>
parseVars == <<pdata, pbody, pkey, pkind, pused, presult, pstatus>>
requestVars == <<request, source, pending, data, resolved, result, rstatus>>
vars == <<flattenVars, mergeVars, parseVars, requestVars>>

-----------------------------------------------------------------------------
(* Bounds *)

MaxEntries == 3

-----------------------------------------------------------------------------
(* JavaScript values *)

Undefined == [t |-> "undefined"]
Hole == [t |-> "hole"]
Str(s) == [t |-> "string", s |-> s]
Obj(p) == [t |-> "object", p |-> p]
Arr(e, p) == [t |-> "array", e |-> e, p |-> p]

IsContainer(v) == v.t \in {"object", "array"}

\* ToBoolean: "" is falsy, every object is truthy.
Truthy(v) ==
  CASE v.t = "string" -> Len(v.s) > 0
    [] v.t = "number" -> v.n /= 0
    [] v.t = "boolean" -> v.b
    [] v.t \in {"object", "array", "file"} -> TRUE
    [] OTHER -> FALSE

Digits == <<"0", "1", "2", "3", "4", "5", "6", "7", "8", "9">>

IsDigit(c) == \E d \in 1..10 : Digits[d] = c

DigitVal(c) == (CHOOSE d \in 1..10 : Digits[d] = c) - 1

RECURSIVE ToNumber(_)
ToNumber(s) ==
  IF Len(s) = 0 THEN 0
  ELSE 10 * ToNumber(SubSeq(s, 1, Len(s) - 1)) + DigitVal(s[Len(s)])

\* /^\d+$/.test(s)
IsAllDigits(s) == Len(s) > 0 /\ \A i \in 1..Len(s) : IsDigit(s[i])

\* A canonical array index: a digit string without a leading zero.
IsArrayIndex(s) == IsAllDigits(s) /\ (Len(s) = 1 \/ s[1] /= "0")

RECURSIVE NumToStr(_)
NumToStr(n) ==
  IF n < 10 THEN <<Digits[n + 1]>> ELSE Append(NumToStr(n \div 10), Digits[(n % 10) + 1])

\* The pairs of an object: own-property lookup, and enumeration order
\* (integer keys ascending, then the other keys in insertion order).
HasKey(p, k) == \E i \in 1..Len(p) : p[i][1] = k

Lookup(p, k) ==
  IF HasKey(p, k) THEN p[CHOOSE i \in 1..Len(p) : p[i][1] = k][2] ELSE Undefined

Store(p, k, v) ==
  IF HasKey(p, k)
  THEN [i \in 1..Len(p) |-> IF p[i][1] = k THEN <<k, v>> ELSE p[i]]
  ELSE IF IsArrayIndex(k)
       THEN LET before == Cardinality({i \in 1..Len(p) :
                             IsArrayIndex(p[i][1]) /\ ToNumber(p[i][1]) < ToNumber(k)})
            IN SubSeq(p, 1, before) \o << <<k, v>> >> \o SubSeq(p, before + 1, Len(p))
       ELSE Append(p, <<k, v>>)

\* The own enumerable properties of v, as pairs: what { ...v } copies.
OwnPairs(v) ==
  CASE v.t \in {"object", "file"} -> v.p
    [] v.t = "array" ->
         SelectSeq([i \in 1..Len(v.e) |-> <<NumToStr(i - 1), v.e[i]>>],
                   LAMBDA pr : pr[2] /= Hole) \o v.p
    [] v.t = "string" -> [i \in 1..Len(v.s) |-> <<NumToStr(i - 1), Str(<<v.s[i]>>)>>]
    [] OTHER -> <<>>

\* { ...pairs, ...v }
RECURSIVE StoreAll(_, _)
StoreAll(p, pairs) ==
  IF Len(pairs) = 0 THEN p ELSE StoreAll(Store(p, pairs[1][1], pairs[1][2]), Tail(pairs))

Spread(p, v) == StoreAll(p, OwnPairs(v))

\* obj[key] for the receivers generateFormData can reach.
GetProp(cur, k) ==
  CASE cur.t \in {"object", "file"} -> Lookup(cur.p, k)
    [] cur.t = "array" ->
         IF IsArrayIndex(k)
         THEN IF ToNumber(k) < Len(cur.e) /\ cur.e[ToNumber(k) + 1] /= Hole
              THEN cur.e[ToNumber(k) + 1] ELSE Undefined
         ELSE Lookup(cur.p, k)
    [] cur.t = "string" ->
         IF IsArrayIndex(k) /\ ToNumber(k) < Len(cur.s)
         THEN Str(<<cur.s[ToNumber(k) + 1]>>) ELSE Undefined
    [] OTHER -> Undefined

\* obj[key] = v succeeds on objects; on a primitive it throws (module code is strict).
CanSetProp(cur) == cur.t \in {"object", "array", "file"}

SetProp(cur, k, v) ==
  CASE cur.t \in {"object", "file"} -> [cur EXCEPT !.p = Store(cur.p, k, v)]
    [] cur.t = "array" ->
         IF IsArrayIndex(k)
         THEN LET n == ToNumber(k) IN
              [cur EXCEPT !.e = [i \in 1..(IF n < Len(cur.e) THEN Len(cur.e) ELSE n + 1) |->
                                   IF i = n + 1 THEN v
                                   ELSE IF i <= Len(cur.e) THEN cur.e[i] ELSE Hole]]
         ELSE [cur EXCEPT !.p = Store(cur.p, k, v)]
    [] OTHER -> cur

\* A push that puts the new element first.
ArrayPushFront(a, v) == [a EXCEPT !.e = <<v>> \o a.e]

\* Array.prototype.push
ArrayPush(a, v) == [a EXCEPT !.e = Append(a.e, v)]

-----------------------------------------------------------------------------
(* generateFormData *)

\* key.split(".")
RECURSIVE Split(_)
Split(s) ==
  IF \E i \in 1..Len(s) : s[i] = "."
  THEN LET i == CHOOSE j \in 1..Len(s) : s[j] = "." /\ \A k \in 1..(j - 1) : s[k] /= "."
       IN <<SubSeq(s, 1, i - 1)>> \o Split(SubSeq(s, i + 1, Len(s)))
  ELSE <<s>>

\* Where /\[\d*\]$|\[\]$/ matches in s (0: no match).
BracketAt(s) ==
  LET n == Len(s)
      starts == {j \in 1..n : /\ s[j] = "["
                              /\ s[n] = "]"
                              /\ j < n
                              /\ \A k \in (j + 1)..(n - 1) : IsDigit(s[k])}
  IN IF starts = {} THEN 0 ELSE CHOOSE j \in starts : \A k \in starts : j <= k

\* /\[\d*\]$|\[\]$/.test(lastKeyPart)
LastKeyPartIsArray(s) == BracketAt(s) > 0

\* lastKeyPart.replace(/\[\d*\]$|\[\]$/, "")
StripBracket(s) == IF BracketAt(s) > 0 THEN SubSeq(s, 1, BracketAt(s) - 1) ELSE s

\* A test that finds every key part missing.
MissingAlways(v) == TRUE

\* !currentObject[keyPart]
Missing(v) == ~Truthy(v)

\* The container created for a missing intermediate key part.
NewContainer(next) == IF IsAllDigits(next) THEN Arr(<<>>, <<>>) ELSE Obj(<<>>)

Threw(v) == [threw |-> TRUE, v |-> v]
Done(v) == [threw |-> FALSE, v |-> v]

\* Lines 43-65: what the last key part does to currentObject.
SetLast(cur, lastKeyPart, value) ==
  IF LastKeyPartIsArray(lastKeyPart)
  THEN LET key == StripBracket(lastKeyPart)
           old == GetProp(cur, key)
       IN IF Missing(old)
          THEN IF CanSetProp(cur)
               THEN Done(SetProp(cur, key, ArrayPush(Arr(<<>>, <<>>), value)))
               ELSE Threw(cur)
          ELSE IF old.t = "array"
               THEN Done(SetProp(cur, key, ArrayPush(old, value)))
               ELSE Threw(cur)
  ELSE IF IsAllDigits(lastKeyPart)
       THEN IF cur.t = "array" THEN Done(ArrayPush(cur, value)) ELSE Threw(cur)
       ELSE IF CanSetProp(cur)
            THEN Done(SetProp(cur, lastKeyPart, value))
            ELSE Threw(cur)

\* Lines 30-65 for one entry, from currentObject = cur and the key parts left.
RECURSIVE Assign(_, _, _)
Assign(cur, keyParts, value) ==
  IF Len(keyParts) = 1
  THEN SetLast(cur, keyParts[1], value)
  ELSE LET keyPart == keyParts[1]
           old == GetProp(cur, keyPart)
       IN IF Missing(old)
          THEN IF CanSetProp(cur)
               THEN LET r == Assign(NewContainer(keyParts[2]), Tail(keyParts), value)
                    IN [threw |-> r.threw, v |-> SetProp(cur, keyPart, r.v)]
               ELSE Threw(cur)
          ELSE LET r == Assign(old, Tail(keyParts), value)
               IN [threw |-> r.threw,
                   v |-> IF CanSetProp(cur) THEN SetProp(cur, keyPart, r.v) ELSE cur]

\* One iteration of the for-of loop over formData.entries().
ProcessEntry(out, entry) == Assign(out, Split(entry[1]), entry[2])

\* The keys and the values the form submits.
FormKeys ==
  { <<"a">>, <<"0">>,
    <<"a", ".", "b">>, <<"a", ".", "0">>, <<"a", ".", "1">>,
    <<"a", "[", "]">>, <<"a", "[", "1", "]">>,
    <<"a", ".", "b", ".", "0">>, <<"a", ".", "0", ".", "b">> }

FormValues == { Str(<<"x">>), Str(<<>>) }

FormEntries == FormKeys \X FormValues

FlattenIdle ==
  /\ consumed = <<>>
  /\ outputObject = Obj(<<>>)
  /\ gstatus = "idle"

MergeIdle ==
  /\ frontendErrors = Obj(<<>>)
  /\ backendErrors = Undefined
  /\ stack = <<>>
  /\ onMergeCalls = 0
  /\ mstatus = "idle"

NoResult == [branch |-> "none", threw |-> FALSE, v |-> Undefined]

ParseIdle ==
  /\ pdata = Undefined
  /\ pbody = <<>>
  /\ pkey = <<>>
  /\ pkind = "standard"
  /\ pused = FALSE
  /\ presult = NoResult
  /\ pstatus = "idle"

RequestIdle ==
  /\ request = [method |-> <<>>, query |-> <<>>, body |-> <<>>, kind |-> "standard"]
  /\ source = "none"
  /\ pending = NoResult
  /\ data = Undefined
  /\ resolved = [errors |-> Undefined, values |-> Undefined]
  /\ result = [errors |-> Undefined, data |-> Undefined, receivedValues |-> Undefined]
  /\ rstatus = "idle"

InitFlatten ==
  /\ consumed = <<>>
  /\ outputObject = Obj(<<>>)
  /\ gstatus = "running"
  /\ MergeIdle
  /\ ParseIdle
  /\ RequestIdle

GenEntry ==
  /\ gstatus = "running"
  /\ Len(consumed) < MaxEntries
  /\ \E entry \in FormEntries :
       LET r == ProcessEntry(outputObject, entry) IN
       /\ consumed' = Append(consumed, entry)
       /\ outputObject' = r.v
       /\ gstatus' = IF r.threw THEN "threw" ELSE "running"
  /\ UNCHANGED <<mergeVars, parseVars, requestVars>>

GenReturn ==
  /\ gstatus = "running"
  /\ gstatus' = "returned"
  /\ UNCHANGED <<consumed, outputObject, mergeVars, parseVars, requestVars>>

NextFlatten == GenEntry \/ GenReturn

SpecFlatten == InitFlatten /\ [][NextFlatten]_vars

-----------------------------------------------------------------------------
(* Properties of generateFormData *)

KeyA == <<"a">>
KeyAB == <<"a", ".", "b">>
KeyA0 == <<"a", ".", "0">>
KeyA1 == <<"a", ".", "1">>
KeyA0B == <<"a", ".", "0", ".", "b">>
ValX == Str(<<"x">>)
ValEmpty == Str(<<>>)

\* The paths of the output object that can hold a container: a key of FormKeys
\* has at most three parts, so at most two lead to a container.
Segments == { <<"a">>, <<"b">>, <<"0">>, <<"1">> }
Paths == { <<s>> : s \in Segments } \cup { <<s, u>> : s, u \in Segments }

RECURSIVE At(_, _)
At(v, path) == IF Len(path) = 0 THEN v ELSE At(GetProp(v, path[1]), Tail(path))

IsPrefix(p, q) == Len(p) <= Len(q) /\ SubSeq(q, 1, Len(p)) = p

LastPart(entry) == Split(entry[1])[Len(Split(entry[1]))]
Front(entry) == SubSeq(Split(entry[1]), 1, Len(Split(entry[1])) - 1)

\* The entry appends to a list: its last key part is name[], name[n] or n.
IsListEntry(entry) == LastKeyPartIsArray(LastPart(entry)) \/ IsAllDigits(LastPart(entry))

\* The path an entry writes to: the list it appends to, or the property it sets.
TargetPath(entry) ==
  IF LastKeyPartIsArray(LastPart(entry))
  THEN Front(entry) \o <<StripBracket(LastPart(entry))>>
  ELSE IF IsAllDigits(LastPart(entry)) THEN Front(entry) ELSE Split(entry[1])

AppendsTo(entry, f) == IsListEntry(entry) /\ TargetPath(entry) = f

Touches(entry, f) == IsPrefix(TargetPath(entry), f) \/ IsPrefix(f, TargetPath(entry))

\* Field f is addressed by list entries only, and by at least one.
ListField(f) ==
  /\ \E i \in 1..Len(consumed) : AppendsTo(consumed[i], f)
  /\ \A i \in 1..Len(consumed) : Touches(consumed[i], f) => AppendsTo(consumed[i], f)

RECURSIVE ValuesFor(_, _)
ValuesFor(f, es) ==
  IF Len(es) = 0 THEN <<>>
  ELSE (IF AppendsTo(es[1], f) THEN <<es[1][2]>> ELSE <<>>) \o ValuesFor(f, Tail(es))

\* C6: the list built for a field that is addressed by bracket-suffixed or purely
\* numeric last key parts holds those entries' values in encounter order, one
\* element per entry, whatever index the key writes.
C6_EncounterOrder ==
  gstatus /= "threw" =>
    \A i \in 1..Len(consumed) :
      LET f == TargetPath(consumed[i]) IN
      (IsListEntry(consumed[i]) /\ ListField(f)) =>
        /\ At(outputObject, f).t = "array"
        /\ At(outputObject, f).e = ValuesFor(f, consumed)

\* "a.1" = "" then "a.0" = "x" has built a = ["", "x"].
C6_Witness ==
  /\ gstatus = "returned"
  /\ consumed = << <<KeyA1, ValEmpty>>, <<KeyA0, ValX>> >>
  /\ At(outputObject, <<KeyA>>) = Arr(<<ValEmpty, ValX>>, <<>>)

\* C7 as claimed: generateFormData returns an object for every entry sequence
\* and never throws.
C7_NeverThrows == gstatus /= "threw"

\* The new container keeps the kind, the keys and the elements of the old one.
Extends(old, new) ==
  /\ new.t = old.t
  /\ \A i \in 1..Len(old.p) : HasKey(new.p, old.p[i][1])
  /\ old.t = "array" => Len(old.e) <= Len(new.e)

\* The entry sets a plain property at path p or above it.
Overwrites(entry, p) == ~IsListEntry(entry) /\ IsPrefix(TargetPath(entry), p)

\* C9 as claimed: once a path holds a container, every later entry leaves it
\* holding a container of the same kind.
C9_ContainerKept ==
  [][\A p \in Paths :
       IsContainer(At(outputObject, p)) =>
         At(outputObject', p).t = At(outputObject, p).t]_vars

\* C9 as amended: once a path holds a container, every later entry leaves it
\* holding the same container of the same kind, unless the entry's last key part
\* is a plain name and its key path is that path or a prefix of it.
C9_ContainerKeptUnlessOverwritten ==
  [][consumed' /= consumed =>
       \A p \in Paths :
         (/\ IsContainer(At(outputObject, p))
          /\ ~Overwrites(consumed'[Len(consumed')], p))
           => Extends(At(outputObject, p), At(outputObject', p))]_vars

\* "a.b" made a an object, and "a.0.b" walked it without making it a list.
C9_Witness ==
  /\ consumed = << <<KeyAB, ValX>>, <<KeyA0B, ValX>> >>
  /\ gstatus = "running"
  /\ At(outputObject, <<KeyA>>).t = "object"
  /\ At(outputObject, <<KeyA, <<"0">>, <<"b">> >>) = ValX

-----------------------------------------------------------------------------
(* mergeErrors and parseRightValue *)

sRoot == <<"r", "o", "o", "t">>
sServerError == <<"s", "e", "r", "v", "e", "r", "E", "r", "r", "o", "r">>
sRandom == <<"r", "a", "n", "d", "o", "m">>
sRootServerError == sRoot \o <<".">> \o sServerError
sRootRandom == sRoot \o <<".">> \o sRandom
sType == <<"t", "y", "p", "e">>
sMessage == <<"m", "e", "s", "s", "a", "g", "e">>
sCustom == <<"c", "u", "s", "t", "o", "m">>
s400 == <<"4", "0", "0">>

\* typeof v === "object"
TypeofObject(v) == v.t \in {"object", "array", "null", "file"}

\* Lines 210-234.
parseRightValue(key, rightValue) ==
  LET serverError == GetProp(rightValue, sServerError)
      random == GetProp(rightValue, sRandom)
      value1 == IF Truthy(serverError)
                THEN Obj(<< <<sRootServerError,
                              Obj(Spread(<< <<sType, Str(s400)>> >>, serverError))>> >>)
                ELSE rightValue
      value2 == IF Truthy(random)
                THEN Obj(<< <<sRootRandom,
                              Obj(Spread(<< <<sType, Str(sRandom)>> >>, random))>> >>)
                ELSE value1
  IN IF key = sRoot THEN value2 ELSE rightValue

\* Line 182-186: the entry is merged by a nested call.
IsNested(rightValue) ==
  /\ TypeofObject(rightValue)
  /\ rightValue.t /= "array"
  /\ ~Truthy(GetProp(rightValue, sMessage))

\* Line 189.
CustomError(rightValue) == Obj(Spread(<< <<sType, Str(sCustom)>> >>, rightValue))

\* Lines 191-194.
StringError(rightValue) == Obj(<< <<sMessage, rightValue>>, <<sType, Str(sCustom)>> >>)

\* A call of mergeErrors past line 177: the entries line 181 iterates, the
\* next one, and the onMerge the call was given.
Frame(errors, onMerge) == [ents |-> OwnPairs(errors), i |-> 1, onMerge |-> onMerge]

\* A nested call that hands the caller's onMerge on.
NestedCallWithOnMerge(value) == Frame(value, "onMerge")

\* Line 187: the nested call gives no third argument, so onMerge is the default no-op.
NestedCall(value) == Frame(value, "noop")

\* The error trees of the model.
sName == <<"n", "a", "m", "e">>
sEmail == <<"e", "m", "a", "i", "l">>
sOther == <<"o", "t", "h", "e", "r">>
sBoom == <<"b", "o", "o", "m">>
sOld == <<"o", "l", "d">>

NodeBoom == Obj(<< <<sMessage, Str(sBoom)>> >>)
NodeEmpty == Obj(<< <<sMessage, Str(<<>>)>> >>)
NodeTyped == Obj(<< <<sMessage, Str(sBoom)>>, <<sType, Str(sOld)>> >>)

BackendValues ==
  { Str(sBoom), Str(<<>>), [t |-> "number", n |-> 7], [t |-> "null"],
    NodeBoom, NodeEmpty, NodeTyped,
    Obj(<< <<sServerError, NodeBoom>> >>),
    Obj(<< <<sRandom, NodeBoom>> >>),
    Obj(<< <<sServerError, NodeBoom>>, <<sRandom, NodeBoom>> >>),
    Obj(<< <<sServerError, NodeTyped>> >>),
    Obj(<< <<sServerError, NodeBoom>>, <<sOther, NodeBoom>> >>),
    Obj(<< <<sOther, NodeBoom>> >>),
    Obj(<< <<sName, Str(sOld)>> >>),
    Obj(<< <<sServerError, Str(sBoom)>> >>),
    Obj(<< <<sServerError, Obj(<< <<sType, Str(sOld)>> >>)>> >>) }

TopKeys == { sName, sRoot, sEmail }

MaxTopKeys == 2

BackendTrees ==
  { Obj(ents) : ents \in
      { e \in UNION { [1..n -> TopKeys \X BackendValues] : n \in 0..MaxTopKeys } :
          \A i, j \in 1..Len(e) : i /= j => e[i][1] /= e[j][1] } }

FrontendTrees ==
  { Obj(<<>>),
    Obj(<< <<sName, Obj(<< <<sMessage, Str(sOld)>>, <<sType, Str(sOld)>> >>)>> >>) }

InitMerge ==
  /\ frontendErrors \in FrontendTrees
  /\ backendErrors \in BackendTrees \cup {Undefined}
  /\ stack = <<>>
  /\ onMergeCalls = 0
  /\ mstatus = "called"
  /\ FlattenIdle
  /\ ParseIdle
  /\ RequestIdle

Top == stack[Len(stack)]

\* Lines 177-179: an absent backendErrors returns at once.
MergeEnter ==
  /\ mstatus = "called"
  /\ IF ~Truthy(backendErrors)
     THEN mstatus' = "returned" /\ UNCHANGED stack
     ELSE mstatus' = "running" /\ stack' = <<Frame(backendErrors, "onMerge")>>
  /\ UNCHANGED <<frontendErrors, backendErrors, onMergeCalls, flattenVars, parseVars, requestVars>>

\* Lines 181-196: one entry of the innermost call.  A null under the key root
\* makes line 216 read a property of null, which throws.
MergeEntry ==
  /\ mstatus = "running"
  /\ Top.i <= Len(Top.ents)
  /\ LET key == Top.ents[Top.i][1]
         rightValue == Top.ents[Top.i][2]
         advanced == [stack EXCEPT ![Len(stack)].i = @ + 1]
     IN IF IsNested(rightValue)
        THEN IF key = sRoot /\ rightValue.t = "null"
             THEN /\ mstatus' = "threw"
                  /\ UNCHANGED <<stack, frontendErrors>>
             ELSE LET value == parseRightValue(key, rightValue) IN
                  /\ stack' = IF Truthy(value) THEN Append(advanced, NestedCall(value))
                              ELSE advanced
                  /\ UNCHANGED <<frontendErrors, mstatus>>
        ELSE /\ stack' = advanced
             /\ frontendErrors' =
                  IF Truthy(GetProp(rightValue, sMessage))
                  THEN SetProp(frontendErrors, key, CustomError(rightValue))
                  ELSE IF rightValue.t = "string"
                       THEN SetProp(frontendErrors, key, StringError(rightValue))
                       ELSE frontendErrors
             /\ UNCHANGED mstatus
  /\ UNCHANGED <<backendErrors, onMergeCalls, flattenVars, parseVars, requestVars>>

\* Lines 198-200: the innermost call runs its onMerge and returns.
MergeReturn ==
  /\ mstatus = "running"
  /\ Top.i > Len(Top.ents)
  /\ onMergeCalls' = IF Top.onMerge = "onMerge" THEN onMergeCalls + 1 ELSE onMergeCalls
  /\ stack' = SubSeq(stack, 1, Len(stack) - 1)
  /\ mstatus' = IF Len(stack) = 1 THEN "returned" ELSE "running"
  /\ UNCHANGED <<frontendErrors, backendErrors, flattenVars, parseVars, requestVars>>

NextMerge == MergeEnter \/ MergeEntry \/ MergeReturn

SpecMerge == InitMerge /\ [][NextMerge]_vars

-----------------------------------------------------------------------------
(* Properties of mergeErrors *)

\* C2: an absent backendErrors runs onMerge zero times and leaves frontendErrors
\* as it was; a call with a present one runs onMerge at most once, in the
\* top-level call and never in a nested one, has run it exactly once when it
\* returns, and writes nothing to frontendErrors after it.
C2_OnMergeOnce ==
  [][/\ ~Truthy(backendErrors) =>
          (frontendErrors' = frontendErrors /\ onMergeCalls' = 0)
     /\ onMergeCalls' <= 1
     /\ onMergeCalls' /= onMergeCalls => (Len(stack) = 1 /\ mstatus' = "returned")
     /\ onMergeCalls = 1 => frontendErrors' = frontendErrors
     /\ (mstatus' = "returned" /\ Truthy(backendErrors)) => onMergeCalls' = 1]_vars

\* A tree with a nested entry has been merged: a nested call ran and wrote, and
\* onMerge has run once.
C2_Witness ==
  /\ mstatus = "returned"
  /\ onMergeCalls = 1
  /\ backendErrors = Obj(<< <<sEmail, Obj(<< <<sName, Str(sOld)>> >>)>> >>)
  /\ GetProp(frontendErrors, sName) = StringError(Str(sOld))

\* The root entry of the backend tree.
RootEntry == GetProp(backendErrors, sRoot)

\* C8 as claimed: an object under root puts "root.serverError" with type "400"
\* in the merged tree when it has a serverError sub-field, "root.random" with
\* type "random" when it has a random sub-field, and nothing for other sub-fields.
C8_RootKeys ==
  (/\ mstatus = "returned"
   /\ backendErrors.t = "object"
   /\ RootEntry.t = "object"
   /\ ~HasKey(RootEntry.p, sMessage)) =>
    /\ HasKey(RootEntry.p, sServerError) =>
         GetProp(GetProp(frontendErrors, sRootServerError), sType) = Str(s400)
    /\ HasKey(RootEntry.p, sRandom) =>
         GetProp(GetProp(frontendErrors, sRootRandom), sType) = Str(sRandom)
    /\ Len(backendErrors.p) = 1 =>
         \A i \in 1..Len(RootEntry.p) :
           RootEntry.p[i][1] \notin {sServerError, sRandom, sName} =>
             ~HasKey(frontendErrors.p, RootEntry.p[i][1])

\* C10 as claimed: every top-level entry that is an object with a message
\* property, or a string, ends up under its own key as a "custom" error.
C10_LeafEntries ==
  (mstatus = "returned" /\ backendErrors.t = "object") =>
    \A i \in 1..Len(backendErrors.p) :
      LET key == backendErrors.p[i][1]
          v == backendErrors.p[i][2]
      IN /\ (v.t = "object" /\ HasKey(v.p, sMessage)) =>
              GetProp(frontendErrors, key) = CustomError(v)
         /\ v.t = "string" => GetProp(frontendErrors, key) = StringError(v)

-----------------------------------------------------------------------------
(* JSON.stringify and JSON.parse, over integers, booleans, null, strings of *)
(* the model's characters, arrays and objects.                              *)

Null == [t |-> "null"]
Bool(b) == [t |-> "boolean", b |-> b]
Num(n) == [t |-> "number", n |-> n]

sNull == <<"n", "u", "l", "l">>
sTrue == <<"t", "r", "u", "e">>
sFalse == <<"f", "a", "l", "s", "e">>

\* The escape JSON.stringify writes for a character of a string.
EscapeChar(c) ==
  CASE c = "\"" -> <<"\\", "\"">>
    [] c = "\\" -> <<"\\", "\\">>
    [] c = "\n" -> <<"\\", "n">>
    [] OTHER -> <<c>>

RECURSIVE EscapeAll(_)
EscapeAll(s) == IF Len(s) = 0 THEN <<>> ELSE EscapeChar(s[1]) \o EscapeAll(Tail(s))

\* A quoting that copies the characters as they are.
QuoteRaw(s) == <<"\"">> \o s \o <<"\"">>

\* QuoteJSONString
Quote(s) == <<"\"">> \o EscapeAll(s) \o <<"\"">>

\* texts[1], sep, texts[2], sep, ...
RECURSIVE Join(_)
Join(texts) ==
  IF Len(texts) = 0 THEN <<>>
  ELSE IF Len(texts) = 1 THEN texts[1]
  ELSE texts[1] \o <<",">> \o Join(Tail(texts))

\* undefined (and a hole) has no JSON text: null in an array, left out of an object.
HasJson(v) == v.t \notin {"undefined", "hole"}

RECURSIVE Stringify(_)
Stringify(v) ==
  CASE v.t = "null" -> sNull
    [] v.t = "boolean" -> IF v.b THEN sTrue ELSE sFalse
    [] v.t = "number" -> IF v.n < 0 THEN <<"-">> \o NumToStr(-v.n) ELSE NumToStr(v.n)
    [] v.t = "string" -> Quote(v.s)
    [] v.t = "array" ->
         <<"[">> \o Join([i \in 1..Len(v.e) |->
                            IF HasJson(v.e[i]) THEN Stringify(v.e[i]) ELSE sNull]) \o <<"]">>
    [] v.t = "object" ->
         LET kept == SelectSeq(v.p, LAMBDA pr : HasJson(pr[2]))
         IN <<"{">> \o Join([i \in 1..Len(kept) |->
                               Quote(kept[i][1]) \o <<":">> \o Stringify(kept[i][2])]) \o <<"}">>
    [] OTHER -> sNull

Fail == [ok |-> FALSE, v |-> Undefined, i |-> 0]
Parsed(v, i) == [ok |-> TRUE, v |-> v, i |-> i]

IsWs(c) == c \in {" ", "\t", "\n", "\r"}

RECURSIVE SkipWs(_, _)
SkipWs(s, i) == IF i <= Len(s) /\ IsWs(s[i]) THEN SkipWs(s, i + 1) ELSE i

\* s has the word w at i.
HasWord(s, i, w) == i + Len(w) - 1 <= Len(s) /\ SubSeq(s, i, i + Len(w) - 1) = w

\* The characters of a string literal, from i (after the opening quote).
RECURSIVE ParseChars(_, _, _)
ParseChars(s, i, acc) ==
  IF i > Len(s) THEN Fail
  ELSE IF s[i] = "\"" THEN Parsed(acc, i + 1)
  ELSE IF s[i] = "\\"
       THEN IF i + 1 > Len(s) THEN Fail
            ELSE IF s[i + 1] \in {"\"", "\\", "/"} THEN ParseChars(s, i + 2, Append(acc, s[i + 1]))
            ELSE IF s[i + 1] = "n" THEN ParseChars(s, i + 2, Append(acc, "\n"))
            ELSE IF s[i + 1] = "t" THEN ParseChars(s, i + 2, Append(acc, "\t"))
            ELSE IF s[i + 1] = "r" THEN ParseChars(s, i + 2, Append(acc, "\r"))
            ELSE Fail
  ELSE IF s[i] \in {"\n", "\t", "\r"} THEN Fail
  ELSE ParseChars(s, i + 1, Append(acc, s[i]))

\* The end of the digits that start at i.
RECURSIVE DigitsEnd(_, _)
DigitsEnd(s, i) == IF i <= Len(s) /\ IsDigit(s[i]) THEN DigitsEnd(s, i + 1) ELSE i

\* An integer literal at i: -? (0 | [1-9][0-9]*).  Fractions and exponents are
\* not among the texts of the model and are not read.
ParseNumber(s, i) ==
  LET neg == i <= Len(s) /\ s[i] = "-"
      from == IF neg THEN i + 1 ELSE i
      to == DigitsEnd(s, from)
  IN IF to = from \/ (s[from] = "0" /\ to > from + 1) THEN Fail
     ELSE IF to <= Len(s) /\ s[to] \in {".", "e", "E"} THEN Fail
     ELSE Parsed(Num((IF neg THEN -1 ELSE 1) * ToNumber(SubSeq(s, from, to - 1))), to)

RECURSIVE ParseValue(_, _)
RECURSIVE ParseElements(_, _, _)
RECURSIVE ParseMembers(_, _, _)

\* The elements of an array, from the first one at i.
ParseElements(s, i, acc) ==
  LET r == ParseValue(s, i)
      j == SkipWs(s, r.i)
  IN IF ~r.ok \/ j > Len(s) THEN Fail
     ELSE IF s[j] = "]" THEN Parsed(Arr(Append(acc, r.v), <<>>), j + 1)
     ELSE IF s[j] = "," THEN ParseElements(s, j + 1, Append(acc, r.v))
     ELSE Fail

\* The members of an object, from the first key at i.
ParseMembers(s, i, acc) ==
  LET k == SkipWs(s, i)
      key == IF k <= Len(s) /\ s[k] = "\"" THEN ParseChars(s, k + 1, <<>>) ELSE Fail
      c == SkipWs(s, key.i)
      r == IF key.ok /\ c <= Len(s) /\ s[c] = ":" THEN ParseValue(s, c + 1) ELSE Fail
      j == SkipWs(s, r.i)
  IN IF ~r.ok \/ j > Len(s) THEN Fail
     ELSE IF s[j] = "}" THEN Parsed(Obj(Store(acc, key.v, r.v)), j + 1)
     ELSE IF s[j] = "," THEN ParseMembers(s, j + 1, Store(acc, key.v, r.v))
     ELSE Fail

ParseValue(s, i0) ==
  LET i == SkipWs(s, i0) IN
  IF i > Len(s) THEN Fail
  ELSE IF HasWord(s, i, sNull) THEN Parsed(Null, i + 4)
  ELSE IF HasWord(s, i, sTrue) THEN Parsed(Bool(TRUE), i + 4)
  ELSE IF HasWord(s, i, sFalse) THEN Parsed(Bool(FALSE), i + 5)
  ELSE IF s[i] = "\"" THEN
         LET r == ParseChars(s, i + 1, <<>>) IN IF r.ok THEN Parsed(Str(r.v), r.i) ELSE Fail
  ELSE IF s[i] = "[" THEN
         LET j == SkipWs(s, i + 1) IN
         IF j <= Len(s) /\ s[j] = "]" THEN Parsed(Arr(<<>>, <<>>), j + 1)
         ELSE ParseElements(s, i + 1, <<>>)
  ELSE IF s[i] = "{" THEN
         LET j == SkipWs(s, i + 1) IN
         IF j <= Len(s) /\ s[j] = "}" THEN Parsed(Obj(<<>>), j + 1)
         ELSE ParseMembers(s, i + 1, <<>>)
  ELSE IF s[i] = "-" \/ IsDigit(s[i]) THEN ParseNumber(s, i)
  ELSE Fail

\* JSON.parse(text): the value, or a SyntaxError.
JsonParse(text) ==
  LET r == ParseValue(text, 1) IN
  IF r.ok /\ SkipWs(text, r.i) > Len(text) THEN Done(r.v) ELSE Threw(Undefined)

-----------------------------------------------------------------------------
(* createFormData and parseFormData *)

sFormData == <<"f", "o", "r", "m", "D", "a", "t", "a">>

File == [t |-> "file", p |-> <<>>]

\* formData.get(key): the first value under key, or null.
FormDataGet(formData, key) ==
  IF \E i \in 1..Len(formData) : formData[i][1] = key
  THEN formData[CHOOSE i \in 1..Len(formData) :
                  formData[i][1] = key /\ \A j \in 1..(i - 1) : formData[j][1] /= key][2]
  ELSE Null

\* Lines 18-70 as a whole: the loop over every entry, stopped by a throw.
RECURSIVE RunEntries(_, _)
RunEntries(out, entries) ==
  IF Len(entries) = 0 THEN Done(out)
  ELSE LET r == ProcessEntry(out, entries[1])
       IN IF r.threw THEN r ELSE RunEntries(r.v, Tail(entries))

generateFormData(formData) == RunEntries(Obj(<<>>), formData)

\* Lines 129-137.
createFormData(d, key) == << <<key, Str(Stringify(d))>> >>

\* Lines 151-161, run on the FormData the await of line 150 delivered: the
\* branch taken, and the value returned or the throw.
parseFormData(formData, key) ==
  LET d == FormDataGet(formData, key) IN
  IF ~Truthy(d)
  THEN [branch |-> "generate", threw |-> generateFormData(formData).threw,
        v |-> generateFormData(formData).v]
  ELSE IF d.t /= "string"
  THEN [branch |-> "notString", threw |-> TRUE, v |-> Undefined]
  ELSE [branch |-> "parse", threw |-> JsonParse(d.s).threw, v |-> JsonParse(d.s).v]

\* Line 150 on a Request whose body was read before: formData() rejects, and
\* the await throws that TypeError out of parseFormData.
BodyUnusable == [branch |-> "unusable", threw |-> TRUE, v |-> Undefined]

\* formData.set(key, value), as the holder of a FormData can call it: the first
\* entry under key takes the value and the later ones go, or the entry is appended.
FormDataSet(formData, key, value) ==
  IF \E i \in 1..Len(formData) : formData[i][1] = key
  THEN LET first == CHOOSE i \in 1..Len(formData) :
                      formData[i][1] = key /\ \A j \in 1..(i - 1) : formData[j][1] /= key
       IN SubSeq(formData, 1, first - 1) \o << <<key, value>> >>
            \o SelectSeq(SubSeq(formData, first + 1, Len(formData)), LAMBDA e : e[1] /= key)
  ELSE Append(formData, <<key, value>>)

Kinds == { "standard", "held" }

MaxJsonLen == 2

JsonAtoms ==
  { Null, Bool(TRUE), Bool(FALSE), Num(0), Num(12), Num(-3),
    Str(<<>>), Str(<<"a">>), Str(<<"\"", "\\">>), Str(<<"\n">>) }

JsonKeys == { <<"a">>, <<"b">>, <<"\"">> }

JsonArrays == { Arr(e, <<>>) : e \in UNION { [1..n -> JsonAtoms] : n \in 0..MaxJsonLen } }

JsonObjects ==
  { Obj(p) : p \in
      { q \in UNION { [1..n -> JsonKeys \X JsonAtoms] : n \in 0..MaxJsonLen } :
          \A i, j \in 1..Len(q) : i /= j => q[i][1] /= q[j][1] } }

JsonNested ==
  { Obj(<< <<<<"a">>, Arr(<<Obj(<< <<<<"b">>, Str(<<"a">>)>> >>)>>, <<>>)>> >>),
    Arr(<<Arr(<<>>, <<>>), Obj(<<>>)>>, <<>>),
    Obj(<< <<sFormData, Obj(<< <<<<"a">>, Null>> >>)>> >>) }

JsonValues == JsonAtoms \cup JsonArrays \cup JsonObjects \cup JsonNested

BodyKeys == { sFormData, <<"a">>, <<>> }

\* The entries of a form built by hand.
BodyEntries ==
  { sFormData, <<"a">>, <<"a", ".", "b">> }
    \X { Str(<<>>), Str(<<"x">>), Str(Stringify(Obj(<< <<<<"a">>, Str(<<"x">>)>> >>))), File }

Bodies == { <<>> } \cup { <<e>> : e \in BodyEntries } \cup { <<e, f>> : e, f \in BodyEntries }

\* What the holder of the FormData writes into it while a call is suspended.
CallerEntries ==
  { <<sFormData, Str(Stringify(Arr(<<Num(1)>>, <<>>)))>>, <<<<"a">>, Str(<<"y">>)>> }

InitParse ==
  /\ pdata = Undefined
  /\ pbody = <<>>
  /\ pkey = sFormData
  /\ pkind = "standard"
  /\ pused = FALSE
  /\ presult = NoResult
  /\ pstatus = "start"
  /\ FlattenIdle
  /\ MergeIdle
  /\ RequestIdle

\* The client serializes its data with createFormData.
CreateFormData ==
  /\ pstatus = "start"
  /\ \E d \in JsonValues, key \in BodyKeys, kind \in Kinds :
       /\ pdata' = d
       /\ pkey' = key
       /\ pkind' = kind
       /\ pbody' = createFormData(d, key)
  /\ pstatus' = "built"
  /\ UNCHANGED <<pused, presult, flattenVars, mergeVars, requestVars>>

\* The client submits a form of its own fields.
SubmitForm ==
  /\ pstatus = "start"
  /\ \E body \in Bodies, key \in BodyKeys, kind \in Kinds :
       /\ pkey' = key
       /\ pkind' = kind
       /\ pbody' = body
  /\ pstatus' = "built"
  /\ UNCHANGED <<pdata, pused, presult, flattenVars, mergeVars, requestVars>>

\* Line 150, up to the await: parseFormData is called (for the first time or
\* again) and calls request.formData().  A Request whose body was read before
\* rejects; otherwise the body is marked used.  The call is then suspended.
ParseCall ==
  /\ pstatus \in {"built", "done"}
  /\ pstatus' = IF pkind = "standard" /\ pused THEN "rejected" ELSE "reading"
  /\ pused' = IF pkind = "standard" THEN TRUE ELSE pused
  /\ presult' = NoResult
  /\ UNCHANGED <<pdata, pbody, pkey, pkind, flattenVars, mergeVars, requestVars>>

\* While the call is suspended at line 150, the holder of the FormData changes it.
CallerSetsEntry ==
  /\ pstatus = "reading"
  /\ pkind = "held"
  /\ \E e \in CallerEntries :
       /\ FormDataSet(pbody, e[1], e[2]) /= pbody
       /\ pbody' = FormDataSet(pbody, e[1], e[2])
  /\ UNCHANGED <<pdata, pkey, pkind, pused, presult, pstatus, flattenVars, mergeVars, requestVars>>

\* Lines 150-161, from the await on: the call resumes with the FormData as it
\* is now, and returns or throws.
ParseResume ==
  /\ pstatus = "reading"
  /\ presult' = parseFormData(pbody, pkey)
  /\ pstatus' = "done"
  /\ UNCHANGED <<pdata, pbody, pkey, pkind, pused, flattenVars, mergeVars, requestVars>>

\* Line 150, from the await on, when formData() rejected.
ParseRejected ==
  /\ pstatus = "rejected"
  /\ presult' = BodyUnusable
  /\ pstatus' = "done"
  /\ UNCHANGED <<pdata, pbody, pkey, pkind, pused, flattenVars, mergeVars, requestVars>>

NextParse ==
  CreateFormData \/ SubmitForm \/ ParseCall \/ CallerSetsEntry \/ ParseResume \/ ParseRejected

SpecParse == InitParse /\ [][NextParse]_vars

\* C4 as claimed: parseFormData, once it has the form body, flattens the whole
\* body exactly when the body has no entry under key.
C4_FlattenIffAbsent ==
  (pstatus = "done" /\ presult.branch /= "unusable") =>
    (presult.branch = "generate" <=> ~(\E i \in 1..Len(pbody) : pbody[i][1] = pkey))

\* C5: parseFormData with key k, on a request whose form body is the body
\* createFormData(obj, k) made and has not been read before, JSON-decodes the
\* entry, does not throw, and returns a value equal to obj.
C5_RoundTrip ==
  (/\ pstatus = "done"
   /\ pdata /= Undefined
   /\ pbody = createFormData(pdata, pkey)
   /\ presult.branch /= "unusable") =>
    /\ presult.branch = "parse"
    /\ ~presult.threw
    /\ presult.v = pdata

\* An object whose string holds a quote and a backslash has made the round trip.
C5_Witness ==
  /\ pstatus = "done"
  /\ pdata = Obj(<< <<<<"\"">>, Str(<<"\"", "\\">>)>>, <<<<"a">>, Num(-3)>> >>)
  /\ pbody = createFormData(pdata, pkey)
  /\ presult.v = pdata

-----------------------------------------------------------------------------
(* isGet, getValidatedFormData and validateFormData *)

sGET == <<"G", "E", "T">>
sGet == <<"g", "e", "t">>
sPOST == <<"P", "O", "S", "T">>

\* Lines 77-78.
isGet(req) == req.method = sGET \/ req.method = sGet

\* Lines 72-75: the entries of the URL's query string, flattened.
getFormDataFromSearchParams(req) == generateFormData(req.query)

\* A test that never finds an error key.
HasErrorsNever(errors) == FALSE

\* Line 116: Object.keys(errors).length > 0
HasErrors(errors) == Len(OwnPairs(errors)) > 0

\* Lines 116-120.
validateFormData(res) ==
  IF HasErrors(res.errors)
  THEN [errors |-> res.errors, data |-> Undefined]
  ELSE [errors |-> Undefined, data |-> res.values]

Methods ==
  { sGET, sGet, <<"G", "e", "t">>, <<"g", "E", "t">>,
    sPOST, <<"p", "o", "s", "t">> }

Queries ==
  { <<>>, << <<KeyA, ValX>> >>, << <<KeyA1, ValEmpty>>, <<KeyA0, ValX>> >>,
    << <<KeyAB, ValX>>, <<KeyA0, ValX>> >> }

\* The form bodies of the requests: one entry, or one entry before a JSON entry
\* under the default key.
RequestBodies ==
  { <<>> } \cup { <<e>> : e \in BodyEntries }
    \cup { <<e, <<sFormData, Str(Stringify(Obj(<< <<<<"a">>, Str(<<"x">>)>> >>)))>> >> :
             e \in BodyEntries }

\* The methods a Request can hold: its constructor stores GET and POST in upper
\* case whatever casing it was given.
StandardMethods == { sGET, sPOST }

\* A Request ("standard") holds a normalised method, and none with the method
\* GET has a body; a request-like object ("held") exposes any method string.
Requests ==
  { r \in [method : Methods, query : Queries, body : RequestBodies, kind : Kinds] :
      r.kind = "standard" =>
        /\ r.method \in StandardMethods
        /\ r.method = sGET => r.body = <<>> }

sRequired == <<"r", "e", "q", "u", "i", "r", "e", "d">>

\* What a resolver can report: no error, one field error, two field errors.
ResolverErrors ==
  { Obj(<<>>),
    Obj(<< <<sName, Obj(<< <<sType, Str(sRequired)>>, <<sMessage, Str(sBoom)>> >>)>> >>),
    Obj(<< <<sName, Obj(<< <<sType, Str(sRequired)>> >>)>>,
           <<sEmail, Obj(<< <<sType, Str(sRequired)>> >>)>> >>) }

sMutated == <<"m", "u", "t", "a", "t", "e", "d">>

Init ==
  /\ request \in Requests
  /\ source = "none"
  /\ pending = NoResult
  /\ data = Undefined
  /\ resolved = [errors |-> Undefined, values |-> Undefined]
  /\ result = [errors |-> Undefined, data |-> Undefined, receivedValues |-> Undefined]
  /\ rstatus = "start"
  /\ FlattenIdle
  /\ MergeIdle
  /\ ParseIdle

\* Lines 93-94, 96 and 110 for a GET request, which has no await before the
\* resolver: the query string is flattened into data, validateFormData is
\* called and calls the resolver, and the call is suspended at line 110.
ExtractQuery ==
  /\ rstatus = "start"
  /\ isGet(request)
  /\ LET got == getFormDataFromSearchParams(request)
     IN /\ source' = "query"
        /\ data' = IF got.threw THEN data ELSE got.v
        /\ rstatus' = IF got.threw THEN "threw" ELSE "resolving"
  /\ UNCHANGED <<request, pending, resolved, result, flattenVars, mergeVars, parseVars>>

\* Lines 93, 95 and 150 for any other request: parseFormData is called and calls
\* request.formData(), and the call is suspended at line 150 with data unbound.
ReadBody ==
  /\ rstatus = "start"
  /\ ~isGet(request)
  /\ source' = "body"
  /\ rstatus' = "reading"
  /\ UNCHANGED <<request, pending, data, resolved, result, flattenVars, mergeVars, parseVars>>

\* While parseFormData is suspended at line 150, the holder of the FormData
\* changes it.
CallerSetsBody ==
  /\ rstatus = "reading"
  /\ request.kind = "held"
  /\ \E e \in CallerEntries :
       /\ FormDataSet(request.body, e[1], e[2]) /= request.body
       /\ request' = [request EXCEPT !.body = FormDataSet(request.body, e[1], e[2])]
  /\ UNCHANGED <<source, pending, data, resolved, result, rstatus, flattenVars, mergeVars,
                 parseVars>>

\* Lines 150-161, from the await on: parseFormData resumes with the FormData as
\* it is now, and its promise settles with the value returned or the throw.
ParseSettles ==
  /\ rstatus = "reading"
  /\ pending' = parseFormData(request.body, sFormData)
  /\ rstatus' = "parsed"
  /\ UNCHANGED <<request, source, data, resolved, result, flattenVars, mergeVars, parseVars>>

\* Lines 95, 96 and 110: the await of line 95 resumes and throws or binds data;
\* validateFormData is called and calls the resolver, and the call is
\* suspended at line 110.
BindData ==
  /\ rstatus = "parsed"
  /\ data' = IF pending.threw THEN data ELSE pending.v
  /\ rstatus' = IF pending.threw THEN "threw" ELSE "resolving"
  /\ UNCHANGED <<request, source, pending, resolved, result, flattenVars, mergeVars, parseVars>>

\* Line 110: the resolver's promise is fulfilled with errors and values of its
\* choice; the values are an object of the resolver's own.
ResolverSettles ==
  /\ rstatus = "resolving"
  /\ \E errors \in ResolverErrors, values \in {Obj(<<>>), data, Undefined} :
       resolved' = [errors |-> errors, values |-> values]
  /\ rstatus' = "resolved"
  /\ UNCHANGED <<request, source, pending, data, result, flattenVars, mergeVars, parseVars>>

\* The resolver throws or rejects, and the error propagates.
ResolverThrows ==
  /\ rstatus = "resolving"
  /\ rstatus' = "threw"
  /\ UNCHANGED <<request, source, pending, data, resolved, result, flattenVars, mergeVars,
                 parseVars>>

\* Lines 110-120, from the await on: validateFormData resumes, and its promise
\* settles with the value it returns.
ValidateSettles ==
  /\ rstatus = "resolved"
  /\ pending' = [branch |-> "validate", threw |-> FALSE, v |-> validateFormData(resolved)]
  /\ rstatus' = "validated"
  /\ UNCHANGED <<request, source, data, resolved, result, flattenVars, mergeVars, parseVars>>

\* Between the call of the resolver and line 97, code that was handed the data
\* object (the resolver, or a task it queued) writes a property of it.
DataChanged ==
  /\ rstatus \in {"resolving", "resolved", "validated"}
  /\ CanSetProp(data)
  /\ SetProp(data, sMutated, Bool(TRUE)) /= data
  /\ data' = SetProp(data, sMutated, Bool(TRUE))
  /\ UNCHANGED <<request, source, pending, resolved, result, rstatus, flattenVars, mergeVars,
                 parseVars>>

\* Lines 96-97, from the await on: the result is built with data as it is now.
Return ==
  /\ rstatus = "validated"
  /\ result' = [errors |-> pending.v.errors,
                data |-> pending.v.data,
                receivedValues |-> data]
  /\ rstatus' = "returned"
  /\ UNCHANGED <<request, source, pending, data, resolved, flattenVars, mergeVars, parseVars>>

Next ==
  \/ ExtractQuery
  \/ ReadBody
  \/ CallerSetsBody
  \/ ParseSettles
  \/ BindData
  \/ ResolverSettles
  \/ ResolverThrows
  \/ ValidateSettles
  \/ DataChanged
  \/ Return

Spec == Init /\ [][Next]_vars

\* C1: with at least one key in the resolver's errors the result is
\* {errors, data: undefined}, otherwise {errors: undefined, data: values};
\* errors and data are never both defined.
C1_ErrorsOrData ==
  rstatus = "returned" =>
    /\ Len(OwnPairs(resolved.errors)) > 0 =>
         (result.errors = resolved.errors /\ result.data = Undefined)
    /\ Len(OwnPairs(resolved.errors)) = 0 =>
         (result.errors = Undefined /\ result.data = resolved.values)
    /\ result.errors = Undefined \/ result.data = Undefined

\* The resolver reported two field errors, with values, and the call returned them.
C1_Witness ==
  /\ rstatus = "returned"
  /\ Len(OwnPairs(resolved.errors)) = 2
  /\ resolved.values /= Undefined
  /\ result.errors = resolved.errors

ToUpperChar(c) ==
  CASE c = "g" -> "G" [] c = "e" -> "E" [] c = "t" -> "T"
    [] c = "p" -> "P" [] c = "o" -> "O" [] c = "s" -> "S"
    [] OTHER -> c

ToUpper(s) == [i \in 1..Len(s) |-> ToUpperChar(s[i])]

\* C3 as claimed: a request whose method is GET in any letter casing, and no
\* other, passes isGet and has its data read from the URL's query string.
C3_CaseInsensitive ==
  rstatus \notin {"idle", "start"} =>
    /\ isGet(request) <=> ToUpper(request.method) = sGET
    /\ source = "query" <=> ToUpper(request.method) = sGET

=============================================================================
